---- MODULE Spec2Model ----
(***************************************************************************)
(* Model of the magnetic-stripe decode pipeline of src/main.py:            *)
(*   get_peaks      (PeakExtractor) samples -> distances between peaks     *)
(*   get_bits       (ClockRecoveryDecoder) distances -> bits               *)
(*   get_bytes      (ByteFramer)   bits   -> 5-bit groups                  *)
(*   get_bcd_chars  (TrackDecoder) groups -> characters / DecodeError      *)
(*   read_card      the caller that chains them                            *)
(*   get_swipe      (SwipeSegmenter) chunk stream -> swipe buffer          *)
(* Characters are modelled by their code points (chr(n) is n).             *)
(* The groups handed to get_bcd_chars are distinct list objects, as the    *)
(* slices get_bytes yields are; `lrc` is the same object as the first      *)
(* group of the local list, and of the caller's list when not reversed.    *)
(* Python lists are 0-indexed, sequences here are 1-indexed.               *)
(***************************************************************************)
EXTENDS Integers, Sequences, FiniteSets, TLC

(* ------------------------------ bounds -------------------------------- *)
\* longest raw bit sequence handed to get_bytes in Spec
MaxBits == 15
\* longest sequence of arbitrary 5-bit groups handed to get_bcd_chars
MaxAnyGroups == 2
\* longest sequence of groups over PoolValues handed to get_bcd_chars
MaxGroups == 4
\* longest character string encoded in SpecEncoded
MaxChars == 2
\* most leading 0 bits put in front of an encoded record in SpecEncoded
MaxLead == 2
\* longest character string of a record in SpecRecord
MaxRecChars == 2

(* ------------------------- program constants -------------------------- *)
\* get_bytes(bits, width=5)
WIDTH == 5
\* ord("0"), the offset bcd_chr adds
ORD_ZERO == 48
\* ord(";") and ord("?")
SEMI == 59
QMARK == 63

VARIABLES
    pc,            \* position of the pipeline
    outcome,       \* "none", "ok", or the kind of exception that ended the run
    bits,          \* get_bytes: the local list `bits`
    emitted,       \* groups yielded by get_bytes so far (list(get_bytes(bits)))
    caller_bytes,  \* the list object the caller passes to get_bcd_chars
    bytes,         \* get_bcd_chars: the local list `bytes`
    is_reversed,   \* get_bcd_chars took the "Try reversed" branch
    ipos,          \* number of items already taken from ibytes
    lrc,           \* get_bcd_chars: `lrc` (the same list object as `start`)
    chars,         \* characters yielded by get_bcd_chars so far
    in_bits,       \* history: the bit sequence get_bytes was called with
    in_bytes,      \* history: the group sequence get_bcd_chars was called with
    src,           \* history: the character values an encoded input was built from
    variant        \* history: how the input was derived from the record of src

dvars == <<pc, outcome, bits, emitted, caller_bytes, bytes, is_reversed, ipos,
           lrc, chars, in_bits, in_bytes, src, variant>>

VARIABLES
    spc,           \* get_swipe: position in the function
    baselines,     \* get_swipe: the deque `baselines`
    bias,          \* get_swipe: `bias`
    old_data,      \* get_swipe: `old_data` (a sequence of samples)
    data,          \* get_swipe: `data`
    power,         \* get_swipe: `power`
    baseline,      \* get_swipe: `baseline`, the fraction [n, d] standing for n/d
    chunks,        \* get_swipe: the list `chunks`
    result,        \* the buffer get_swipe returned, <<>> before
    reads,         \* history: the chunks get_chunk returned, in order
    quiet,         \* history: no compared chunk was above 3.5 x the window mean
    powers_seen,   \* history: the set of chunk powers measured so far
    windows,       \* history: the window `baselines` at each test of
                   \*   `power > baseline`, one entry per chunk compared
    powers,        \* history: `power` at each of these tests
    audio          \* the source `audio`: the chunks it can deliver (pool) and
                   \*   how many it delivers in all (limit)

svars == <<spc, baselines, bias, old_data, data, power, baseline, chunks,
           result, reads, quiet, powers_seen, windows, powers, audio>>

VARIABLES
    ppc,            \* get_peaks: position in the generator
    poutcome,       \* "none", "ok", or the kind of exception that ended it
    samples,        \* get_peaks: the list `samples`
    gp_i,           \* get_peaks: `i`
    old_i,          \* get_peaks: `old_i`
    sign,           \* get_peaks: `sign`
    peak_threshold, \* get_peaks: `peak_threshold`, in tenths
    peak,           \* get_peaks: `peak`
    dists           \* the distances get_peaks has yielded so far

pvars == <<ppc, poutcome, samples, gp_i, old_i, sign, peak_threshold, peak,
           dists>>

VARIABLES
    bpc,            \* get_bits: position in the generator
    peaks,          \* get_bits: the list `peaks` (after peaks[5:])
    clocks,         \* get_bits: the deque `clocks`, each entry doubled
    gb_i,           \* get_bits: `i`
    out_bits,       \* the bits get_bits has yielded so far
    in_peaks        \* history: the distances get_bits was called with

bvars == <<bpc, peaks, clocks, gb_i, out_bits, in_peaks>>

vars == <<dvars, svars, pvars, bvars>>

(* ----------------------------- helpers -------------------------------- *)
RECURSIVE SumSeq(_)
SumSeq(s) == IF s = <<>> THEN 0 ELSE s[1] + SumSeq(Tail(s))

\* s[::-1]
Rev(s) == [k \in 1..Len(s) |-> s[Len(s) + 1 - k]]

\* s[:n]
Take(s, n) == SubSeq(s, 1, IF n < Len(s) THEN n ELSE Len(s))

\* s[n:]
Drop(s, n) == SubSeq(s, n + 1, Len(s))

\* b"".join(chunks), and a list of groups laid end to end
RECURSIVE Flatten(_)
Flatten(ss) == IF ss = <<>> THEN <<>> ELSE ss[1] \o Flatten(Tail(ss))

\* int("".join(map(str, digits)), 2): most significant digit first
RECURSIVE int2(_)
int2(digits) ==
    IF digits = <<>> THEN 0
    ELSE 2 * int2(SubSeq(digits, 1, Len(digits) - 1)) + digits[Len(digits)]

\* byte[-2::-1]: from the last-but-one element down to the first
Slice_m2_rev(byte) == [k \in 1..(Len(byte) - 1) |-> byte[Len(byte) - k]]

\* a mutant of bcd_chr: the data bits are read most significant first
bcd_chr_msb_first(byte) ==
    int2(SubSeq(byte, 1, Len(byte) - 1)) + ORD_ZERO

bcd_chr(byte) ==
    int2(Slice_m2_rev(byte)) + ORD_ZERO

\* a mutant of TryReversed: the group order is reversed, the bit order is not
TryReversed_order_only(bs) == [k \in 1..Len(bs) |-> bs[Len(bs) + 1 - k]]

\* [byte[::-1] for byte in reversed(bytes)]
TryReversed(bs) == [k \in 1..Len(bs) |-> Rev(bs[Len(bs) + 1 - k])]

\* a mutant of lrc_accumulate: the last data bit is left out of the XOR
lrc_accumulate_short(acc, byte) ==
    [i \in 1..Len(acc) |->
        IF i < Len(acc) - 1 THEN (acc[i] + byte[i]) % 2 ELSE acc[i]]

\* for i in range(len(lrc) - 1): lrc[i] = (lrc[i] + byte[i]) % 2
lrc_accumulate(acc, byte) ==
    [i \in 1..Len(acc) |->
        IF i < Len(acc) THEN (acc[i] + byte[i]) % 2 ELSE acc[i]]

\* a mutant of lrc_finalize: even instead of odd parity
lrc_finalize_even(acc) ==
    [acc EXCEPT ![Len(acc)] = SumSeq(SubSeq(acc, 1, Len(acc) - 1)) % 2]

\* lrc[-1] = sum(lrc[:-1], 1) % 2
lrc_finalize(acc) ==
    [acc EXCEPT ![Len(acc)] = (SumSeq(SubSeq(acc, 1, Len(acc) - 1)) + 1) % 2]

(* ------------------------------ get_bytes ----------------------------- *)
\* bits = list(bits); if not bits: raise DecodeError("No bits were found ...")
get_bytes_entry ==
    /\ pc = "get_bytes"
    /\ IF bits = <<>>
       THEN /\ outcome' = "NoBits"
            /\ pc' = "done"
       ELSE /\ outcome' = outcome
            /\ pc' = "strip"
    /\ UNCHANGED <<bits, emitted, caller_bytes, bytes, is_reversed, ipos, lrc,
                   chars, in_bits, in_bytes, src, variant>>
    /\ UNCHANGED <<svars, pvars, bvars>>

\* a mutant of get_bytes_strip: the leading 0 bits are not discarded
get_bytes_strip_none ==
    /\ pc = "strip"
    /\ pc' = "frame"
    /\ UNCHANGED <<bits, outcome>>
    /\ UNCHANGED <<emitted, caller_bytes, bytes, is_reversed, ipos, lrc,
                   chars, in_bits, in_bytes, src, variant>>
    /\ UNCHANGED <<svars, pvars, bvars>>

\* one test of `while bits[0] == 0: bits = bits[1:]`;
\* bits[0] on the empty list raises IndexError
get_bytes_strip ==
    /\ pc = "strip"
    /\ IF bits = <<>>
       THEN /\ outcome' = "IndexError"
            /\ pc' = "done"
            /\ bits' = bits
       ELSE IF bits[1] = 0
       THEN /\ bits' = Drop(bits, 1)
            /\ UNCHANGED <<pc, outcome>>
       ELSE /\ pc' = "frame"
            /\ UNCHANGED <<bits, outcome>>
    /\ UNCHANGED <<emitted, caller_bytes, bytes, is_reversed, ipos, lrc,
                   chars, in_bits, in_bytes, src, variant>>
    /\ UNCHANGED <<svars, pvars, bvars>>

\* one pass of `while 1:`: take a group; a short group ends the generator;
\* a group that fails parity is only logged (the `return` is commented out)
\* and is yielded like any other
get_bytes_frame ==
    /\ pc = "frame"
    /\ bits' = Drop(bits, WIDTH)
    /\ LET byte == Take(bits, WIDTH) IN
       IF Len(byte) < WIDTH
       THEN /\ pc' = "framed"
            /\ emitted' = emitted
       ELSE /\ pc' = pc
            /\ emitted' = Append(emitted, byte)
    /\ UNCHANGED <<outcome, caller_bytes, bytes, is_reversed, ipos, lrc,
                   chars, in_bits, in_bytes, src, variant>>
    /\ UNCHANGED <<svars, pvars, bvars>>

(* ------------------------------ read_card ----------------------------- *)
\* bytes = list(get_bytes(bits)); get_bcd_chars(bytes)
read_card ==
    /\ pc = "framed"
    /\ caller_bytes' = emitted
    /\ in_bytes' = emitted
    /\ pc' = "get_bcd_chars"
    /\ UNCHANGED <<outcome, bits, emitted, bytes, is_reversed, ipos, lrc,
                   chars, in_bits, src, variant>>
    /\ UNCHANGED <<svars, pvars, bvars>>

(* ---------------------------- get_bcd_chars --------------------------- *)
\* lines 184-198: copy the list, pick the orientation, take the start group.
\* bytes[0] on the empty list raises IndexError.
get_bcd_chars_entry ==
    /\ pc = "get_bcd_chars"
    /\ IF caller_bytes = <<>>
       THEN /\ outcome' = "IndexError"
            /\ pc' = "done"
            /\ UNCHANGED <<bytes, is_reversed, ipos, lrc>>
       ELSE LET rev == bcd_chr(caller_bytes[1]) # SEMI
                bs == IF rev THEN TryReversed(caller_bytes) ELSE caller_bytes
                start == bs[1]
            IN
            /\ bytes' = bs
            /\ is_reversed' = rev
            /\ ipos' = 1
            /\ IF bcd_chr(start) # SEMI
               THEN /\ outcome' = "NoStartSentinel"
                    /\ pc' = "done"
                    /\ lrc' = lrc
               ELSE /\ outcome' = outcome
                    /\ pc' = "decode"
                    /\ lrc' = start
    /\ UNCHANGED <<bits, emitted, caller_bytes, chars, in_bits, in_bytes, src,
                   variant>>
    /\ UNCHANGED <<svars, pvars, bvars>>

\* lrc is the list object bytes[0]; when the list was not reversed that
\* object is also the first group of the caller's list
Store(bs, acc) == [bs EXCEPT ![1] = acc]

\* one pass of the `while 1:` of lines 200-215, with the handlers of 217-221
get_bcd_chars_step ==
    /\ pc = "decode"
    /\ IF ipos = Len(bytes)
       THEN \* byte = next(ibytes) raises StopIteration
            /\ outcome' = "NoEndSentinel"
            /\ pc' = "done"
            /\ UNCHANGED <<ipos, lrc, chars, bytes, caller_bytes>>
       ELSE LET byte == bytes[ipos + 1]
                char == bcd_chr(byte)
                acc  == lrc_accumulate(lrc, byte)
                fin  == lrc_finalize(acc)
            IN
            IF char = QMARK
            THEN /\ lrc' = fin
                 /\ bytes' = Store(bytes, fin)
                 /\ caller_bytes' = IF is_reversed THEN caller_bytes
                                    ELSE Store(caller_bytes, fin)
                 /\ chars' = chars
                 /\ pc' = "done"
                 /\ IF ipos + 1 = Len(bytes)
                    THEN \* real_lrc = next(ibytes) raises StopIteration
                         /\ ipos' = ipos + 1
                         /\ outcome' = "NoEndSentinel"
                    ELSE /\ ipos' = ipos + 2
                         /\ outcome' = IF bytes[ipos + 2] # fin
                                       THEN "BadLRC" ELSE "ok"
            ELSE /\ lrc' = acc
                 /\ bytes' = Store(bytes, acc)
                 /\ caller_bytes' = IF is_reversed THEN caller_bytes
                                    ELSE Store(caller_bytes, acc)
                 /\ chars' = Append(chars, char)
                 /\ ipos' = ipos + 1
                 /\ UNCHANGED <<pc, outcome>>
    /\ UNCHANGED <<bits, emitted, is_reversed, in_bits, in_bytes, src, variant>>
    /\ UNCHANGED <<svars, pvars, bvars>>

(* ------------------------------ audioop ------------------------------- *)
\* samples are signed 16-bit integers
SAMPLE_MIN == -32768
SAMPLE_MOD == 65536

Abs(x) == IF x < 0 THEN 0 - x ELSE x

\* audioop.maxpp(fragment, 2): the largest difference between two successive
\* extremes (places where the direction of the signal changes); equal
\* neighbours are skipped, the first extreme only sets the reference
RECURSIVE maxpp_scan(_, _, _, _, _, _, _)
maxpp_scan(frag, i, prevval, prevdiff, valid, extreme, max) ==
    IF i > Len(frag) THEN max
    ELSE LET val == frag[i] IN
         IF val = prevval
         THEN maxpp_scan(frag, i + 1, prevval, prevdiff, valid, extreme, max)
         ELSE LET diff == IF val < prevval THEN 1 ELSE 0
                  turned == prevdiff = 1 - diff
                  extremediff == Abs(prevval - extreme)
              IN maxpp_scan(frag, i + 1, val, diff,
                            valid \/ turned,
                            IF turned THEN prevval ELSE extreme,
                            IF turned /\ valid /\ extremediff > max
                            THEN extremediff ELSE max)

maxpp(frag) ==
    IF Len(frag) <= 1 THEN 0
    ELSE maxpp_scan(frag, 2, frag[1], 17, FALSE, 0, 0)

\* audioop.avg(fragment, 2): floor of the mean, 0 for the empty fragment
avg(frag) == IF frag = <<>> THEN 0 ELSE SumSeq(frag) \div Len(frag)

\* audioop.bias(fragment, 2, b): b added to each sample, wrapping in 16 bits
Wrap16(x) == ((x - SAMPLE_MIN) % SAMPLE_MOD) + SAMPLE_MIN
audio_bias(frag, b) == [k \in 1..Len(frag) |-> Wrap16(frag[k] + b)]

(* ------------------------------ get_swipe ----------------------------- *)
\* THRESHOLD_FACTOR = 3.5, as the fraction 7/2
THRESHOLD_FACTOR_NUM == 7
THRESHOLD_FACTOR_DEN == 2
\* baselines = deque([2 ** 15] * 4)
BASELINE_SEED == 32768
BASELINE_LEN == 4

\* src.read(10000), data[:3000] and data[1000:] count bytes of 2-byte samples
READ_BYTES == 10000
PROBE_BYTES == 3000
DROP_BYTES == 1000
SAMPLE_WIDTH == 2
\* One sample of the model stands for Plateau equal consecutive samples of
\* the signal: audioop.maxpp skips equal neighbours and audioop.avg of such a
\* signal is the mean of its plateau values, so get_swipe on the model's
\* chunks is get_swipe on the signals they stand for.
Plateau == 250
ReadSamples == READ_BYTES \div (SAMPLE_WIDTH * Plateau)
ProbeSamples == PROBE_BYTES \div (SAMPLE_WIDTH * Plateau)
DropSamples == DROP_BYTES \div (SAMPLE_WIDTH * Plateau)
\* most chunks the source delivers in one run
MaxReads == 6

\* the chunks the source can deliver, before bias
Silence == [k \in 1..ReadSamples |-> 0]
Offset == [k \in 1..ReadSamples |-> 1000]
Hum == [k \in 1..ReadSamples |-> IF k % 2 = 1 THEN 100 ELSE -100]
Loud == [k \in 1..ReadSamples |-> IF k % 2 = 1 THEN 32767 ELSE -32768]
\* one slow swing: the two extremes lie further apart than a probe is long
Swing == [k \in 1..ReadSamples |->
            IF k = 1 \/ k = ReadSamples THEN 0
            ELSE IF k = 2 THEN 32767 ELSE -32768]
ChunkPool == {Silence, Offset, Hum, Loud, Swing}
\* the chunks of the longer streams, and their length
LongPool == {Silence, Hum, Loud}
MaxLongReads == 7
\* the sources get_swipe is run on
Sources == {[pool |-> ChunkPool, limit |-> MaxReads],
            [pool |-> LongPool, limit |-> MaxLongReads]}

\* a mutant of threshold: the factor is left out
threshold_no_factor(window) ==
    [n |-> SumSeq(window), d |-> Len(window)]

\* sum(baselines) / len(baselines) * THRESHOLD_FACTOR, as a fraction n/d
threshold(window) ==
    [n |-> SumSeq(window) * THRESHOLD_FACTOR_NUM,
     d |-> Len(window) * THRESHOLD_FACTOR_DEN]

\* a mutant of Above: the comparison is not strict
Above_or_equal(p, b) == p * b.d >= b.n

\* power > baseline
Above(p, b) == p * b.d > b.n

\* audioop.maxpp(probe, 2) < baseline / 2
BelowHalf(p, b) == p * 2 * b.d < b.n

\* lines 70-75: read a chunk, recompute the threshold, chunks = []
get_swipe_read ==
    /\ spc = "read"
    /\ Len(reads) < audio.limit
    /\ \E raw \in audio.pool :
          LET d == audio_bias(raw, bias) IN
          /\ data' = d
          /\ power' = maxpp(d)
          /\ powers_seen' = powers_seen \cup {maxpp(d)}
    /\ baseline' = threshold(baselines)
    /\ chunks' = <<>>
    /\ reads' = Append(reads, data')
    /\ spc' = "while"
    /\ UNCHANGED <<baselines, bias, old_data, result, quiet, windows, powers,
                   audio>>
    /\ UNCHANGED <<dvars, pvars, bvars>>

\* lines 76-79: one test of `while power > baseline`; an active chunk is
\* appended and the next chunk is read
get_swipe_while ==
    /\ spc = "while"
    /\ quiet' = (quiet /\ 2 * Len(baselines) * power <= 7 * SumSeq(baselines))
    /\ windows' = Append(windows, baselines)
    /\ powers' = Append(powers, power)
    /\ IF Above(power, baseline)
       THEN /\ Len(reads) < audio.limit
            /\ chunks' = Append(chunks, data)
            /\ \E raw \in audio.pool :
                  LET d == audio_bias(raw, bias) IN
                  /\ data' = d
                  /\ power' = maxpp(d)
                  /\ powers_seen' = powers_seen \cup {maxpp(d)}
            /\ reads' = Append(reads, data')
            /\ spc' = spc
       ELSE /\ spc' = "decide"
            /\ UNCHANGED <<chunks, data, power, powers_seen, reads>>
    /\ UNCHANGED <<baselines, bias, old_data, baseline, result, audio>>
    /\ UNCHANGED <<dvars, pvars, bvars>>

\* a mutant of get_swipe_decide: one active chunk is enough to be accepted
get_swipe_decide_any ==
    /\ spc = "decide"
    /\ IF Len(chunks) > 0
       THEN /\ data' = old_data \o Flatten(chunks) \o data
            /\ spc' = "trim_front"
            /\ UNCHANGED <<old_data, bias, baselines>>
       ELSE /\ old_data' = data
            /\ bias' = 0 - avg(data)
            /\ baselines' = Append(Tail(baselines), power)
            /\ spc' = "read"
            /\ data' = data
    /\ UNCHANGED <<power, baseline, chunks, result, reads, quiet, powers_seen,
                   windows, powers, audio>>
    /\ UNCHANGED <<dvars, pvars, bvars>>

\* a mutant of get_swipe_decide: the power of a rejected burst is absorbed
get_swipe_decide_absorb_burst ==
    /\ spc = "decide"
    /\ IF Len(chunks) > 1
       THEN /\ data' = old_data \o Flatten(chunks) \o data
            /\ spc' = "trim_front"
            /\ UNCHANGED <<old_data, bias, baselines>>
       ELSE /\ old_data' = data
            /\ bias' = 0 - avg(data)
            /\ baselines' = Append(Tail(baselines),
                                   IF chunks # <<>> THEN maxpp(chunks[1])
                                   ELSE power)
            /\ spc' = "read"
            /\ data' = data
    /\ UNCHANGED <<power, baseline, chunks, result, reads, quiet, powers_seen,
                   windows, powers, audio>>
    /\ UNCHANGED <<dvars, pvars, bvars>>

\* a mutant of get_swipe_decide: after a rejected burst old_data is left as
\* it was
get_swipe_decide_stale ==
    /\ spc = "decide"
    /\ IF Len(chunks) > 1
       THEN /\ data' = old_data \o Flatten(chunks) \o data
            /\ spc' = "trim_front"
            /\ UNCHANGED <<old_data, bias, baselines>>
       ELSE /\ old_data' = IF chunks = <<>> THEN data ELSE old_data
            /\ bias' = 0 - avg(data)
            /\ baselines' = Append(Tail(baselines), power)
            /\ spc' = "read"
            /\ data' = data
    /\ UNCHANGED <<power, baseline, chunks, result, reads, quiet, powers_seen,
                   windows, powers, audio>>
    /\ UNCHANGED <<dvars, pvars, bvars>>

\* lines 81-82 and 90-95: more than one active chunk starts the trimming of
\* old_data + chunks + data; otherwise the last chunk read becomes old_data
\* and its mean and power are absorbed
get_swipe_decide ==
    /\ spc = "decide"
    /\ IF Len(chunks) > 1
       THEN /\ data' = old_data \o Flatten(chunks) \o data
            /\ spc' = "trim_front"
            /\ UNCHANGED <<old_data, bias, baselines>>
       ELSE /\ old_data' = data
            /\ bias' = 0 - avg(data)
            /\ baselines' = Append(Tail(baselines), power)
            /\ spc' = "read"
            /\ data' = data
    /\ UNCHANGED <<power, baseline, chunks, result, reads, quiet, powers_seen,
                   windows, powers, audio>>
    /\ UNCHANGED <<dvars, pvars, bvars>>

\* lines 83-84: one test of the loop that trims the front
get_swipe_trim_front ==
    /\ spc = "trim_front"
    /\ IF BelowHalf(maxpp(Take(data, ProbeSamples)), baseline)
       THEN /\ data' = Drop(data, DropSamples)
            /\ spc' = spc
       ELSE /\ data' = data
            /\ spc' = "trim_back"
    /\ UNCHANGED <<baselines, bias, old_data, power, baseline, chunks, result,
                   reads, quiet, powers_seen, windows, powers, audio>>
    /\ UNCHANGED <<dvars, pvars, bvars>>

\* data[-n:] and data[:-n]
TakeLast(s, n) == SubSeq(s, IF n < Len(s) THEN Len(s) - n + 1 ELSE 1, Len(s))
DropLast(s, n) == SubSeq(s, 1, Len(s) - n)

\* lines 85-86: one test of the loop that trims the back
get_swipe_trim_back ==
    /\ spc = "trim_back"
    /\ IF BelowHalf(maxpp(TakeLast(data, ProbeSamples)), baseline)
       THEN /\ data' = DropLast(data, DropSamples)
            /\ spc' = spc
       ELSE /\ data' = data
            /\ spc' = "return"
    /\ UNCHANGED <<baselines, bias, old_data, power, baseline, chunks, result,
                   reads, quiet, powers_seen, windows, powers, audio>>
    /\ UNCHANGED <<dvars, pvars, bvars>>

\* line 88: return audioop.bias(data, 2, -audioop.avg(data, 2))
get_swipe_return ==
    /\ spc = "return"
    /\ result' = audio_bias(data, 0 - avg(data))
    /\ spc' = "returned"
    /\ UNCHANGED <<baselines, bias, old_data, data, power, baseline, chunks,
                   reads, quiet, powers_seen, windows, powers, audio>>
    /\ UNCHANGED <<dvars, pvars, bvars>>

(* ------------------------------ get_peaks ----------------------------- *)
\* FIRST_PEAK_FACTOR = 0.8 and SECOND_PEAK_FACTOR = 0.5, in tenths
FIRST_PEAK_FACTOR_TENTHS == 8
SECOND_PEAK_FACTOR_TENTHS == 5
TENTHS == 10
\* data[:1000] counts bytes of 2-byte samples
PEAK_PROBE_BYTES == 1000
PeakProbeSamples == PEAK_PROBE_BYTES \div SAMPLE_WIDTH

\* max(a, b)
Max(a, b) == IF a > b THEN a ELSE b

\* audioop.maxpp(data[:1000], 2) * FIRST_PEAK_FACTOR, in tenths
first_threshold(ss) == maxpp(Take(ss, PeakProbeSamples)) * FIRST_PEAK_FACTOR_TENTHS

\* lines 110-111: one test of `while i < len(samples)`, then peak = 0
get_peaks_outer ==
    /\ ppc = "outer"
    /\ IF gp_i < Len(samples)
       THEN /\ peak' = 0
            /\ ppc' = "inner"
            /\ poutcome' = poutcome
       ELSE /\ peak' = peak
            /\ ppc' = "done"
            /\ poutcome' = "ok"
    /\ UNCHANGED <<samples, gp_i, old_i, sign, peak_threshold, dists>>
    /\ UNCHANGED <<dvars, svars, bvars>>

\* lines 112-123: one test of `while samples[i] * sign > peak_threshold`
\* (samples[i] past the end raises IndexError); when the test fails, the rest
\* of the pass of the outer loop
get_peaks_inner ==
    /\ ppc = "inner"
    /\ IF gp_i >= Len(samples)
       THEN /\ poutcome' = "IndexError"
            /\ ppc' = "done"
            /\ UNCHANGED <<gp_i, old_i, sign, peak_threshold, peak, dists>>
       ELSE IF TENTHS * samples[gp_i + 1] * sign > peak_threshold
       THEN /\ peak' = Max(samples[gp_i + 1] * sign, peak)
            /\ gp_i' = gp_i + 1
            /\ UNCHANGED <<ppc, poutcome, old_i, sign, peak_threshold, dists>>
       ELSE /\ IF peak # 0
               THEN /\ dists' = IF old_i # 0 THEN Append(dists, gp_i - old_i)
                                ELSE dists
                    /\ old_i' = gp_i
                    /\ sign' = 0 - sign
                    /\ peak_threshold' = peak * SECOND_PEAK_FACTOR_TENTHS
               ELSE UNCHANGED <<dists, old_i, sign, peak_threshold>>
            /\ gp_i' = gp_i + 1
            /\ ppc' = "outer"
            /\ UNCHANGED <<poutcome, peak>>
    /\ UNCHANGED samples
    /\ UNCHANGED <<dvars, svars, bvars>>

(* ------------------------------ get_bits ------------------------------ *)
\* peaks[5:] and peaks[:4]
DISCARD == 5
CLOCK_LEN == 4

\* deque([p / 2.0 for p in peaks[:4]]); an entry of clocks is twice the value
\* the deque holds, so p / 2 is kept as p and peak as 2 * peak
seed_clocks(ps) == Take(ps, CLOCK_LEN)

\* peak > 1.5 * sum(clocks, 0.0) / len(clocks), on the doubled entries
LongPeak(d, cl) == 4 * Len(cl) * d > 3 * SumSeq(cl)

\* lines 127-136: discard the first 5 distances, seed the clock window
get_bits_entry ==
    /\ bpc = "get_bits"
    /\ peaks' = Drop(in_peaks, DISCARD)
    /\ clocks' = seed_clocks(Drop(in_peaks, DISCARD))
    /\ gb_i' = 0
    /\ bpc' = "loop"
    /\ UNCHANGED <<out_bits, in_peaks>>
    /\ UNCHANGED <<dvars, svars, pvars>>

\* a mutant of get_bits_step: a bit 1 pushes the second of its two distances
get_bits_step_second ==
    /\ bpc = "loop"
    /\ IF gb_i < Len(peaks) - 2
       THEN /\ IF LongPeak(peaks[gb_i + 1], clocks)
               THEN /\ out_bits' = Append(out_bits, 0)
                    /\ gb_i' = gb_i + 1
                    /\ clocks' = Tail(Append(clocks, peaks[gb_i + 1]))
               ELSE /\ out_bits' = Append(out_bits, 1)
                    /\ gb_i' = gb_i + 2
                    /\ clocks' = Tail(Append(clocks, 2 * peaks[gb_i + 2]))
            /\ bpc' = bpc
       ELSE /\ bpc' = "done"
            /\ UNCHANGED <<out_bits, gb_i, clocks>>
    /\ UNCHANGED <<peaks, in_peaks>>
    /\ UNCHANGED <<dvars, svars, pvars>>

\* lines 137-148: one test of `while i < len(peaks) - 2` and one pass
get_bits_step ==
    /\ bpc = "loop"
    /\ IF gb_i < Len(peaks) - 2
       THEN /\ IF LongPeak(peaks[gb_i + 1], clocks)
               THEN /\ out_bits' = Append(out_bits, 0)
                    /\ gb_i' = gb_i + 1
                    /\ clocks' = Tail(Append(clocks, peaks[gb_i + 1]))
               ELSE /\ out_bits' = Append(out_bits, 1)
                    /\ gb_i' = gb_i + 2
                    /\ clocks' = Tail(Append(clocks, 2 * peaks[gb_i + 1]))
            /\ bpc' = bpc
       ELSE /\ bpc' = "done"
            /\ UNCHANGED <<out_bits, gb_i, clocks>>
    /\ UNCHANGED <<peaks, in_peaks>>
    /\ UNCHANGED <<dvars, svars, pvars>>

(* ------------------------- inputs of the runs ------------------------- *)
Bit == {0, 1}
BitSeqs(n) == UNION {[1..k -> Bit] : k \in 0..n}
Groups == [1..WIDTH -> Bit]
\* BCD values closed under XOR that hold both sentinels: a record over them
\* has its LRC among them
PoolValues == {0, 4, 11, 15}
PoolGroups == {g \in Groups : bcd_chr(g) - ORD_ZERO \in PoolValues}
GroupSeqs(n, alphabet) == UNION {[1..k -> alphabet] : k \in 1..n}

\* the odd-parity group of a 4-bit value, least significant data bit first
DataBits(v) == <<v % 2, (v \div 2) % 2, (v \div 4) % 2, (v \div 8) % 2>>
OddParity(d) == (1 + SumSeq(d)) % 2
GroupOf(v) == Append(DataBits(v), OddParity(DataBits(v)))
\* column-wise XOR of the data bits of the groups gs, with its parity bit
Column(gs, i) == SumSeq([k \in 1..Len(gs) |-> gs[k][i]]) % 2
LrcOf(gs) ==
    LET d == [i \in 1..(WIDTH - 1) |-> Column(gs, i)] IN Append(d, OddParity(d))
\* ';' s '?' LRC
Framed(s) ==
    <<GroupOf(SEMI - ORD_ZERO)>> \o [k \in 1..Len(s) |-> GroupOf(s[k])]
        \o <<GroupOf(QMARK - ORD_ZERO)>>
Record(s) == Append(Framed(s), LrcOf(Framed(s)))
Zeros(n) == [k \in 1..n |-> 0]
Encode(z, s) == Zeros(z) \o Flatten(Record(s))
\* character strings over the BCD values 0..14
Strings(n) == UNION {[1..k -> 0..14] : k \in 0..n}
CharsOf(s) == [k \in 1..Len(s) |-> s[k] + ORD_ZERO]
\* the record with data bit b of group g flipped
Flip(gs, g, b) == [gs EXCEPT ![g][b] = 1 - gs[g][b]]
\* the same swipe captured backward
Backward(gs) == [k \in 1..Len(gs) |-> Rev(gs[Len(gs) + 1 - k])]

InitDecodeLocals ==
    /\ outcome = "none"
    /\ emitted = <<>>
    /\ bytes = <<>>
    /\ is_reversed = FALSE
    /\ ipos = 0
    /\ lrc = <<>>
    /\ chars = <<>>

\* get_swipe before its first chunk (lines 66-68)
InitSwipeLocals ==
    /\ spc = "read"
    /\ baselines = [k \in 1..BASELINE_LEN |-> BASELINE_SEED]
    /\ bias = 0
    /\ old_data = <<>>
    /\ data = <<>>
    /\ power = 0
    /\ baseline = [n |-> 0, d |-> 1]
    /\ chunks = <<>>
    /\ result = <<>>
    /\ reads = <<>>
    /\ quiet = TRUE
    /\ powers_seen = {}
    /\ windows = <<>>
    /\ powers = <<>>

\* get_swipe not started, no source
InitSwipe ==
    /\ InitSwipeLocals
    /\ audio = [pool |-> {}, limit |-> 0]

\* the decode pipeline not started
InitDecodeIdle ==
    /\ InitDecodeLocals
    /\ pc = "idle"
    /\ bits = <<>>
    /\ in_bits = <<>>
    /\ caller_bytes = <<>>
    /\ in_bytes = <<>>
    /\ src = <<>>
    /\ variant = [kind |-> "raw", g |-> 0, b |-> 0]

\* get_peaks not started
InitPeaksIdle ==
    /\ ppc = "idle"
    /\ poutcome = "none"
    /\ samples = <<>>
    /\ gp_i = 0
    /\ old_i = 0
    /\ sign = 1
    /\ peak_threshold = 0
    /\ peak = 0
    /\ dists = <<>>

\* get_bits not started
InitBitsIdle ==
    /\ bpc = "idle"
    /\ peaks = <<>>
    /\ clocks = <<>>
    /\ gb_i = 0
    /\ out_bits = <<>>
    /\ in_peaks = <<>>

\* longest sample buffer handed to get_peaks
MaxSamples == 5
\* the sample values of these buffers
SampleValues == {-10, -4, 0, 4, 10}
SampleSeqs == UNION {[1..k -> SampleValues] : k \in 0..MaxSamples}

\* get_peaks(data) after lines 103-109
InitPeaks ==
    /\ InitDecodeIdle
    /\ InitSwipe
    /\ InitBitsIdle
    /\ ppc = "outer"
    /\ poutcome = "none"
    /\ samples \in SampleSeqs
    /\ gp_i = 0
    /\ old_i = 0
    /\ sign = 1
    /\ peak_threshold = first_threshold(samples)
    /\ peak = 0
    /\ dists = <<>>

\* the distances handed to get_bits: the half and the whole bit period and
\* the value on the decision boundary between them
Dist == {2, 3, 4}
\* longest sequence of distances after the 5 that are discarded
MaxTail == 6
\* the sequences that are discarded
Leads == {<<4, 4, 4, 4, 4>>, <<2, 4, 3, 4, 2>>}
DistSeqs(n) == UNION {[1..k -> Dist] : k \in 0..n}
PeakInputs ==
    {Take(l, k) : l \in Leads, k \in 0..DISCARD}
        \cup {l \o t : l \in Leads, t \in DistSeqs(MaxTail)}

\* get_bits(peaks) at its call
InitBits ==
    /\ InitDecodeIdle
    /\ InitSwipe
    /\ InitPeaksIdle
    /\ bpc = "get_bits"
    /\ peaks = <<>>
    /\ clocks = <<>>
    /\ gb_i = 0
    /\ out_bits = <<>>
    /\ in_peaks \in PeakInputs

\* read_card from an arbitrary bit sequence
Init ==
    /\ InitDecodeLocals
    /\ InitSwipe
    /\ InitPeaksIdle
    /\ InitBitsIdle
    /\ pc = "get_bytes"
    /\ bits \in BitSeqs(MaxBits)
    /\ in_bits = bits
    /\ caller_bytes = <<>>
    /\ in_bytes = <<>>
    /\ src = <<>>
    /\ variant = [kind |-> "raw", g |-> 0, b |-> 0]

\* read_card from the encoding of a character string
InitEncoded ==
    /\ InitDecodeLocals
    /\ InitSwipe
    /\ InitPeaksIdle
    /\ InitBitsIdle
    /\ pc = "get_bytes"
    /\ src \in Strings(MaxChars)
    /\ \E z \in 0..MaxLead :
          /\ bits = Encode(z, src)
          /\ variant = [kind |-> "encoded", g |-> z, b |-> 0]
    /\ in_bits = bits
    /\ caller_bytes = <<>>
    /\ in_bytes = <<>>

\* get_bcd_chars on a non-empty sequence of 5-bit groups: any groups up to
\* MaxAnyGroups, groups over PoolValues up to MaxGroups
InitGroups ==
    /\ InitDecodeLocals
    /\ InitSwipe
    /\ InitPeaksIdle
    /\ InitBitsIdle
    /\ pc = "get_bcd_chars"
    /\ bits = <<>>
    /\ in_bits = <<>>
    /\ caller_bytes \in
          GroupSeqs(MaxAnyGroups, Groups) \cup GroupSeqs(MaxGroups, PoolGroups)
    /\ in_bytes = caller_bytes
    /\ src = <<>>
    /\ variant = [kind |-> "raw", g |-> 0, b |-> 0]

\* get_bcd_chars on a valid record: as it is, captured backward, or with one
\* data bit of one data character flipped
InitRecord ==
    /\ InitDecodeLocals
    /\ InitSwipe
    /\ InitPeaksIdle
    /\ InitBitsIdle
    /\ pc = "get_bcd_chars"
    /\ bits = <<>>
    /\ in_bits = <<>>
    /\ src \in Strings(MaxRecChars)
    /\ \/ /\ variant = [kind |-> "forward", g |-> 0, b |-> 0]
          /\ caller_bytes = Record(src)
       \/ /\ variant = [kind |-> "backward", g |-> 0, b |-> 0]
          /\ caller_bytes = Backward(Record(src))
       \/ \E g \in 1..Len(src), b \in 1..(WIDTH - 1) :
             /\ variant = [kind |-> "flip", g |-> g, b |-> b]
             /\ caller_bytes = Flip(Record(src), g + 1, b)
    /\ in_bytes = caller_bytes

\* get_swipe on a stream of chunks
InitSegmenter ==
    /\ InitDecodeIdle
    /\ InitSwipeLocals
    /\ audio \in Sources
    /\ InitPeaksIdle
    /\ InitBitsIdle

Next ==
    \/ get_bytes_entry
    \/ get_bytes_strip
    \/ get_bytes_frame
    \/ read_card
    \/ get_bcd_chars_entry
    \/ get_bcd_chars_step

NextDecode ==
    \/ get_bcd_chars_entry
    \/ get_bcd_chars_step

NextSwipe ==
    \/ get_swipe_read
    \/ get_swipe_while
    \/ get_swipe_decide
    \/ get_swipe_trim_front
    \/ get_swipe_trim_back
    \/ get_swipe_return

NextPeaks ==
    \/ get_peaks_outer
    \/ get_peaks_inner

NextBits ==
    \/ get_bits_entry
    \/ get_bits_step

Spec == Init /\ [][Next]_vars
SpecEncoded == InitEncoded /\ [][Next]_vars
SpecDecoder == (InitGroups \/ InitRecord) /\ [][NextDecode]_vars
SpecSwipe == InitSegmenter /\ [][NextSwipe]_vars
SpecPeaks == InitPeaks /\ [][NextPeaks]_vars
SpecBits == InitBits /\ [][NextBits]_vars

(* ------------------------------ claims -------------------------------- *)
\* the orientation get_bcd_chars decodes: the sequence as given when its
\* first group decodes to ';', the backward capture otherwise
Oriented(gs) == IF bcd_chr(gs[1]) = SEMI THEN gs ELSE Backward(gs)
AllZero(s) == \A k \in 1..Len(s) : s[k] = 0
DecodeErrors == {"NoBits", "NoStartSentinel", "BadLRC", "NoEndSentinel"}

\* C1: a run of get_bytes then get_bcd_chars, as read_card chains them, ends
\* either with a decoded string or with a DecodeError of kind NoBits,
\* NoStartSentinel, BadLRC or NoEndSentinel; no other failure escapes.
C1_OnlyDecodeErrors ==
    pc = "done" => outcome \in {"ok"} \cup DecodeErrors

\* C2: the encoding of a string over the values 0..14 (leading 0 bits, then
\* the odd-parity groups of ';', the characters, '?' and the LRC) is decoded
\* by get_bytes and get_bcd_chars to exactly that string, with no error.
C2_EncoderRoundTrip ==
    /\ outcome \in {"none", "ok"}
    /\ pc = "done" => outcome = "ok" /\ chars = CharsOf(src)

C2_Witness ==
    /\ pc = "done"
    /\ outcome = "ok"
    /\ Len(src) >= 2
    /\ variant.g >= 1
    /\ chars = CharsOf(src)

\* C3: every group get_bytes has emitted has an odd bit-sum (a group with an
\* even bit-sum stops the framing and is not emitted).
C3_EmittedGroupsOdd ==
    \A k \in 1..Len(emitted) : SumSeq(emitted[k]) % 2 = 1

\* C4: a valid record with one data bit of one data character flipped makes
\* get_bcd_chars fail with BadLRC, never succeed or fail otherwise.
C4_FlipIsBadLRC ==
    (variant.kind = "flip" /\ pc = "done") => outcome = "BadLRC"

\* C5: get_bcd_chars applied to the backward capture of a valid record
\* yields the same string as applied to the record itself.
C5_BackwardSameString ==
    (variant.kind = "backward" /\ pc = "done") =>
        (outcome = "ok" /\ chars = CharsOf(src))

\* C6: get_bytes on a bit sequence without any 1 bit, empty or not, fails
\* with NoBits.
C6_AllZeroIsNoBits ==
    (AllZero(in_bits) /\ pc \notin {"get_bytes", "strip"}) => outcome = "NoBits"

\* C7: when get_bcd_chars completes without error, the group after the first
\* '?' equals in all 5 bits the column-wise XOR of the data bits of the groups
\* from ';' through that '?', with odd parity over it, and the output is the
\* characters of the groups strictly between ';' and that '?', in order.
C7_AcceptanceSound ==
    (pc = "done" /\ outcome = "ok") =>
        LET B == Oriented(in_bytes) IN
        \E q \in 2..(Len(B) - 1) :
            /\ bcd_chr(B[q]) = QMARK
            /\ \A j \in 1..(q - 1) : bcd_chr(B[j]) # QMARK
            /\ B[q + 1] = LrcOf(SubSeq(B, 1, q))
            /\ chars = [j \in 1..(q - 2) |-> bcd_chr(B[j + 1])]

C7_Witness ==
    /\ pc = "done"
    /\ outcome = "ok"
    /\ is_reversed
    /\ Len(chars) >= 1

\* C8: get_bcd_chars fails with NoEndSentinel when, and only when, the
\* sequence in the orientation that starts with ';' holds no '?' group.
C8_NoEndIffNoQuestionMark ==
    pc = "done" =>
        LET B == Oriented(in_bytes) IN
        (outcome = "NoEndSentinel") <=>
            /\ bcd_chr(B[1]) = SEMI
            /\ \A k \in 2..Len(B) : bcd_chr(B[k]) # QMARK

\* C9: on a non-empty sequence get_bcd_chars fails with NoStartSentinel
\* exactly when neither the first group nor the bit-reversed last group
\* decodes to ';', and then it has yielded no character.
C9_NoStartIffNeitherOrientation ==
    /\ pc = "done" =>
          ((outcome = "NoStartSentinel") <=>
              /\ bcd_chr(in_bytes[1]) # SEMI
              /\ bcd_chr(Rev(in_bytes[Len(in_bytes)])) # SEMI)
    /\ outcome = "NoStartSentinel" => chars = <<>>

C9_Witness ==
    /\ pc = "done"
    /\ outcome = "NoStartSentinel"
    /\ Len(in_bytes) >= 2
    /\ bcd_chr(in_bytes[Len(in_bytes)]) = SEMI

\* C10: as long as every compared chunk was at or below 3.5 x the mean of the
\* rolling window, and also as long as all chunks had the same power,
\* get_swipe has no active chunk, does not trim or return, and goes on reading
\* (its next step is enabled as long as the source has a chunk to deliver).
C10_QuietNeverReturns ==
    (quiet \/ Cardinality(powers_seen) <= 1) =>
        /\ spc \in {"read", "while", "decide"}
        /\ chunks = <<>>
        /\ result = <<>>
        /\ Len(reads) < audio.limit => ENABLED NextSwipe

C10_Witness ==
    /\ quiet
    /\ spc = "read"
    /\ Len(reads) >= 5
    /\ Cardinality(powers_seen) >= 2
    /\ \A k \in 1..Len(baselines) : baselines[k] # BASELINE_SEED

\* chunk k of the stream was active when compared: its power was above 3.5 x
\* the mean of the window of that moment
Active(k) == 2 * Len(windows[k]) * powers[k] > 7 * SumSeq(windows[k])
Accepting == {"trim_front", "trim_back", "return", "returned"}

\* C11: get_swipe trims and returns only after a run of at least two
\* consecutive active chunks followed by a non-active chunk; after a run of
\* exactly one active chunk nothing is returned, the chunk kept as old_data is
\* the non-active chunk read after the burst, and the next chunk is read.
C11_OnlyRunsLongerThanOne ==
    LET n == Len(windows) IN
    /\ spc \in Accepting =>
          n >= 3 /\ ~Active(n) /\ Active(n - 1) /\ Active(n - 2)
    /\ result # <<>> => spc = "returned"
    /\ (spc = "read" /\ n >= 2 /\ Active(n - 1)) =>
          /\ ~Active(n)
          /\ result = <<>>
          /\ old_data = reads[n]
          /\ Len(reads) < audio.limit => ENABLED get_swipe_read

C11_Witness ==
    LET n == Len(windows) IN
    /\ spc = "read"
    /\ n >= 4
    /\ Active(n - 1)
    /\ ~Active(n - 2)
    /\ powers[n] > 0

\* the powers of the non-active chunks among the first n compared, in order
RECURSIVE QuietPowers(_)
QuietPowers(n) ==
    IF n = 0 THEN <<>>
    ELSE IF Active(n) THEN QuietPowers(n - 1)
    ELSE Append(QuietPowers(n - 1), powers[n])
Seeds == [k \in 1..BASELINE_LEN |-> BASELINE_SEED]
\* the chunk compared last was not active and its power is not pushed (yet)
Pending == spc \in {"decide"} \cup Accepting

\* C12: the rolling window always holds 4 values, and they are the last 4 of:
\* the four seeds, then the powers of the chunks that were at or below the
\* threshold when compared, in order; the power of an active chunk, a
\* rejected single burst included, is never among them.
C12_WindowAbsorbsOnlyQuiet ==
    LET n == Len(windows)
        q == QuietPowers(n)
        absorbed == IF Pending THEN DropLast(q, 1) ELSE q
    IN
    /\ Len(baselines) = BASELINE_LEN
    /\ Pending => n >= 1 /\ ~Active(n)
    /\ baselines = TakeLast(Seeds \o absorbed, BASELINE_LEN)

C12_Witness ==
    LET n == Len(windows) IN
    /\ spc = "read"
    /\ n >= 5
    /\ \E k \in 1..(n - 1) : Active(k)
    /\ \A k \in 1..BASELINE_LEN : baselines[k] # BASELINE_SEED
    /\ Cardinality({baselines[k] : k \in 1..BASELINE_LEN}) >= 2

\* C13: once get_swipe has accepted a run, the trimming loops leave a
\* non-empty buffer: the buffer is never consumed whole, and what is returned
\* is not empty.
C13_TrimmingKeepsData ==
    /\ spc \in Accepting => data # <<>>
    /\ spc = "returned" => result # <<>>

\* the number of consecutive active chunks that end with chunk k
RECURSIVE ActiveRun(_)
ActiveRun(k) == IF k = 0 THEN 0 ELSE IF Active(k) THEN 1 + ActiveRun(k - 1) ELSE 0

\* C18: the step that accepts a run puts into data, in the order read and
\* once each: the chunk read just before the first active chunk of the run,
\* the chunks of the run, and the non-active chunk read after it.
C18_AssembledInSourceOrder ==
    [][(spc = "decide" /\ spc' = "trim_front") =>
          LET n == Len(reads)
              r == ActiveRun(n - 1)
          IN
          /\ Len(windows) = n
          /\ ~Active(n)
          /\ r >= 2
          /\ n - r - 1 >= 1
          /\ ~Active(n - r - 1)
          /\ data' = Flatten(SubSeq(reads, n - r - 1, n))
          /\ Len(data') = (r + 2) * ReadSamples]_vars

\* an accepted run whose preceding chunk is the one read after a rejected
\* single burst
C18_Witness ==
    LET n == Len(reads) IN
    /\ spc = "trim_front"
    /\ Len(windows) = n
    /\ n >= 7
    /\ ActiveRun(n - 1) = 2
    /\ Active(n - 4)
    /\ data = Flatten(SubSeq(reads, n - 3, n))
    /\ reads[n - 3] # reads[n - 4]
    /\ powers[n - 3] > 0

\* the largest power of a chunk of 16-bit samples
MaxPower16 == SAMPLE_MOD - 1

\* C20: every chunk power is at most 65535; neither of the first two chunks
\* read is active; a chunk is active only after at least two chunk powers
\* were absorbed into the window; get_swipe accepts and returns only after it
\* has read at least 5 chunks.
C20_WarmUp ==
    /\ \A k \in 1..Len(powers) : powers[k] \in 0..MaxPower16
    /\ \A k \in 1..Len(windows) :
          Active(k) => /\ k >= 3
                       /\ Len(QuietPowers(k - 1)) >= 2
                       /\ windows[k] # Seeds
    /\ spc \in Accepting => Len(reads) >= 5

C20_Witness ==
    /\ spc = "returned"
    /\ Len(reads) = 5
    /\ Active(3)
    /\ Active(4)
    /\ powers[3] = MaxPower16
    /\ result # <<>>

\* C19: get_bcd_chars leaves the caller's groups as they were: at every point
\* of the run, and after it ended by success or by an error, each group of
\* the caller's list has the bits it had at the call.
C19_InputUnmodified ==
    caller_bytes = in_bytes

\* C14: get_peaks ends normally on every sample buffer: the generator is
\* exhausted without an error.
C14_PeaksEndNormally ==
    /\ poutcome \in {"none", "ok"}
    /\ ppc = "done" => poutcome = "ok"

\* a classification is about to be made: the loop test of get_bits passes
Classifying == bpc = "loop" /\ gb_i < Len(peaks) - 2

\* C15: the clock window of get_bits holds exactly 4 values whenever a
\* distance is classified and after every push and pop.
C15_ClockWindowIsFour ==
    (Classifying \/ (bpc \in {"loop", "done"} /\ out_bits # <<>>)) =>
        Len(clocks) = CLOCK_LEN

\* C16: get_bits has stopped only when fewer than 2 of the distances left
\* after the discard are unconsumed, and never consumed more than there are.
C16_StopsOnlyBelowTwo ==
    /\ bpc = "done" => Len(peaks) - gb_i < 2
    /\ gb_i <= Len(peaks)

\* C17: a step of get_bits that classifies distance d against the window
\* mean m emits 0, consumes one distance and pushes d/2 when d > 1.5 x m, and
\* otherwise emits 1, consumes two distances and pushes d; either way the
\* oldest entry is dropped and the bit goes to the end of the output.
C17_StepRule ==
    [][(bpc = "loop" /\ bpc' = "loop") =>
          LET d == peaks[gb_i + 1]
              twice_sum == SumSeq(clocks)
              long == 4 * d * Len(clocks) > 3 * twice_sum
          IN
          /\ gb_i + 2 < Len(peaks)
          /\ Len(clocks') = Len(clocks)
          /\ \A k \in 1..(Len(clocks) - 1) : clocks'[k] = clocks[k + 1]
          /\ long => /\ out_bits' = Append(out_bits, 0)
                     /\ gb_i' = gb_i + 1
                     /\ clocks'[Len(clocks)] = d
          /\ ~long => /\ out_bits' = Append(out_bits, 1)
                      /\ gb_i' = gb_i + 2
                      /\ clocks'[Len(clocks)] = 2 * d]_vars

C17_Witness ==
    /\ bpc = "done"
    /\ Len(out_bits) >= 3
    /\ \E j, k \in 1..Len(out_bits) : out_bits[j] = 0 /\ out_bits[k] = 1
    /\ \E k \in 1..(Len(peaks) - 1) : peaks[k] = 2 /\ peaks[k + 1] # 2
    /\ Len(clocks) = CLOCK_LEN

====
